---------------------------- MODULE Spec2Model ----------------------------
(***************************************************************************)
(* Model of the financial-helper extraction engines:                       *)
(*   - ConsorsbankDataframeMapper (row format)                             *)
(*   - PDFConsorsbankExtractor    (text format)                            *)
(*   - TransactionProcessor.process (thread-pool merge)                    *)
(*                                                                         *)
(* Strings that the code inspects character by character (amounts, dates)  *)
(* are sequences of one-character strings.  An optional value is <<>>      *)
(* (Python None) or <<v>>.  A float is the integer number of 10^-FracDigits*)
(* units, which is exact for every decimal string the model can build.     *)
(***************************************************************************)
EXTENDS Integers, Sequences, FiniteSets, TLC

VARIABLES
    (* amount parser / formatter *)
    apc, aval, astr, aout, asoll, ahaben,
    (* date normaliser *)
    dpc, datum_str, global_year, dout,
    (* ConsorsbankDataframeMapper *)
    mpc, df, blocks, midx, mtransactions, mid, mraised,
    (* PDFConsorsbankExtractor *)
    tpc, text, tblocks, tidx, transactions, previous_balance, tlog, tcalls,
    (* TransactionProcessor *)
    ppc, pdf_csv_files, futures, finished, results, pnext, all_transactions

amtVars  == <<apc, aval, astr, aout, asoll, ahaben>>
dateVars == <<dpc, datum_str, global_year, dout>>
mapVars  == <<mpc, df, blocks, midx, mtransactions, mid, mraised>>
textVars == <<tpc, text, tblocks, tidx, transactions, previous_balance, tlog, tcalls>>
procVars == <<ppc, pdf_csv_files, futures, finished, results, pnext, all_transactions>>
vars     == <<amtVars, dateVars, mapVars, textVars, procVars>>

\* what each machine leaves alone
notAmtVars  == <<dateVars, mapVars, textVars, procVars>>
notDateVars == <<amtVars, mapVars, textVars, procVars>>
notMapVars  == <<amtVars, dateVars, textVars, procVars>>
notTextVars == <<amtVars, dateVars, mapVars, procVars>>
notProcVars == <<amtVars, dateVars, mapVars, textVars>>

---------------------------------------------------------------------------
(* Bounds *)

\* largest magnitude, in cents, of the values sent through format/parse
MaxCents == 130
\* longest free-form string offered to the column parser
MaxStrLen == 3
\* decimal places a modelled float can carry: enough for any string of
\* MaxStrLen characters and for the two places of the literal amounts
FracDigits == MaxStrLen + 1

---------------------------------------------------------------------------
(* Python values *)

None == <<>>
Some(v) == <<v>>
IsNone(o) == o = <<>>
Val(o) == o[1]

RECURSIVE Pow10(_)
Pow10(n) == IF n = 0 THEN 1 ELSE 10 * Pow10(n - 1)

\* one currency unit and one cent, in float units
Scale == Pow10(FracDigits)
Cent == Scale \div 100
Cents(c) == c * Cent

Abs(x) == IF x < 0 THEN -x ELSE x

---------------------------------------------------------------------------
(* Python string methods on character sequences *)

DigitChars == <<"0", "1", "2", "3", "4", "5", "6", "7", "8", "9">>
IsDigit(c) == \E i \in 1..10 : DigitChars[i] = c
DigitVal(c) == (CHOOSE i \in 1..10 : DigitChars[i] = c) - 1

IsSpace(c) == c \in {" ", "\n"}

\* str.strip()
RECURSIVE LStrip(_)
LStrip(s) == IF Len(s) > 0 /\ IsSpace(s[1]) THEN LStrip(Tail(s)) ELSE s
RECURSIVE RStrip(_)
RStrip(s) ==
    IF Len(s) > 0 /\ IsSpace(s[Len(s)]) THEN RStrip(SubSeq(s, 1, Len(s) - 1)) ELSE s
Strip(s) == RStrip(LStrip(s))

\* str.replace(c, '')
Remove(s, c) == SelectSeq(s, LAMBDA x : x # c)
\* str.replace(c, d)
Subst(s, c, d) == [i \in 1..Len(s) |-> IF s[i] = c THEN d ELSE s[i]]
\* s[:-1]
DropLast(s) == SubSeq(s, 1, Len(s) - 1)
\* str.endswith(c)
EndsWith(s, c) == Len(s) > 0 /\ s[Len(s)] = c

RECURSIVE DigitsToNat(_)
DigitsToNat(s) ==
    IF Len(s) = 0 THEN 0
    ELSE 10 * DigitsToNat(DropLast(s)) + DigitVal(s[Len(s)])

RECURSIVE NatToDigits(_)
NatToDigits(n) ==
    IF n < 10 THEN <<DigitChars[n + 1]>>
    ELSE NatToDigits(n \div 10) \o <<DigitChars[(n % 10) + 1]>>

Count(s, c) == Len(SelectSeq(s, LAMBDA x : x = c))
IndexOf(s, c) == CHOOSE i \in 1..Len(s) : s[i] = c /\ \A j \in 1..(i - 1) : s[j] # c

(***************************************************************************)
(* float(s): surrounding whitespace is ignored, then an optional sign,     *)
(* digits with at most one '.', and at least one digit.  The characters    *)
(* the model builds strings from never spell an exponent, 'inf', 'nan' or  *)
(* a digit-group underscore, so those branches of the grammar are absent.  *)
(* The result is None where Python raises ValueError.                      *)
(***************************************************************************)
PyFloat(s) ==
    LET t == Strip(s)
        signed == Len(t) > 0 /\ t[1] \in {"+", "-"}
        neg == Len(t) > 0 /\ t[1] = "-"
        body == IF signed THEN Tail(t) ELSE t
        ndot == Count(body, ".")
        wellFormed == /\ Len(body) > ndot
                      /\ ndot <= 1
                      /\ \A i \in 1..Len(body) : IsDigit(body[i]) \/ body[i] = "."
        nfrac == IF ndot = 0 THEN 0 ELSE Len(body) - IndexOf(body, ".")
        mag == DigitsToNat(Remove(body, ".")) * Pow10(FracDigits - nfrac)
    IN  IF wellFormed THEN Some(IF neg THEN -mag ELSE mag) ELSE None

\* f"{x:.2f}" of a non-negative x, rounded to the nearest cent.  A value that is
\* a whole number of cents is printed exactly; only a value half-way between
\* two cents needs the tie rule, taken here as ties-to-even on the decimal.
Fixed2(x) ==
    LET q == x \div Cent
        r == x % Cent
        up == (2 * r > Cent) \/ (2 * r = Cent /\ q % 2 = 1)
        c == IF up THEN q + 1 ELSE q
        frac == c % 100
    IN  NatToDigits(c \div 100) \o <<".">>
          \o <<DigitChars[(frac \div 10) + 1], DigitChars[(frac % 10) + 1]>>

---------------------------------------------------------------------------
(* PDFConsorsbankExtractor: amount parser and formatter *)

\* parse_amount without its elif branch: a trailing '-' no longer negates
parse_amount_SignDropped(s0) ==
    LET s3 == Subst(Remove(Strip(DropLast(Strip(s0))), "."), ",", ".")
    IN  PyFloat(s3)

parse_amount(s0) ==
    LET s1 == Strip(s0)
        sign == IF EndsWith(s1, "+") THEN 1
                ELSE IF EndsWith(s1, "-") THEN -1 ELSE 1
        s2 == Strip(DropLast(s1))
        s3 == Subst(Remove(s2, "."), ",", ".")
        f == PyFloat(s3)
    IN  IF IsNone(f) THEN None ELSE Some(sign * Val(f))

format_amount(val) ==
    IF IsNone(val) THEN <<>>
    ELSE Subst(Fixed2(Abs(Val(val))), ".", ",")
           \o (IF Val(val) >= 0 THEN <<"+">> ELSE <<"-">>)

---------------------------------------------------------------------------
(* ConsorsbankDataframeMapper: debit/credit column parser *)

_parse_value(soll_str, haben_str) ==
    IF Len(soll_str) > 0
    THEN LET val_str == Remove(Subst(Remove(soll_str, "."), ",", "."), "-")
             f == PyFloat(val_str)
         IN  IF IsNone(f) THEN None ELSE Some(-Val(f))
    ELSE IF Len(haben_str) > 0
    THEN LET val_str == Remove(Subst(Remove(haben_str, "."), ",", "."), "+")
             f == PyFloat(val_str)
         IN  IF IsNone(f) THEN None ELSE Some(Val(f))
    ELSE None


---------------------------------------------------------------------------
(* Amount parser exercised on its own                                      *)
(*   "start"     a signed whole-cent value is about to be formatted        *)
(*   "formatted" astr = format_amount(aval)                                *)
(*   "parsed"    astr and its magnitude have been parsed back              *)
(*   "raw"       astr is a free-form string for the three parsers          *)

AmountChars == {"1", "5", ",", ".", "+", "-", "x"}

RECURSIVE StringsUpTo(_, _)
StringsUpTo(chars, n) ==
    IF n = 0 THEN {<<>>}
    ELSE LET shorter == StringsUpTo(chars, n - 1)
         IN  shorter \cup {Append(s, c) : s \in shorter, c \in chars}

AmtIdle ==
    /\ apc = "idle" /\ aval = 0 /\ astr = <<>>
    /\ aout = None /\ asoll = None /\ ahaben = None

AmtInit ==
    /\ aout = None /\ asoll = None /\ ahaben = None
    /\ \/ /\ apc = "start"
          /\ aval \in {Cents(c) : c \in (-MaxCents)..MaxCents}
          /\ astr = <<>>
       \/ /\ apc = "raw"
          /\ aval = 0
          /\ astr \in StringsUpTo(AmountChars, MaxStrLen)

\* format_amount(v)
Format ==
    /\ apc = "start"
    /\ astr' = format_amount(Some(aval))
    /\ apc' = "formatted"
    /\ UNCHANGED <<aval, aout, asoll, ahaben>>
    /\ UNCHANGED notAmtVars

\* the digits of a formatted amount without its sign suffix
Magnitude(s) == DropLast(s)

\* parse_amount(s); _parse_value(magnitude, "") ; _parse_value("", magnitude)
Reparse ==
    /\ apc = "formatted"
    /\ aout' = parse_amount(astr)
    /\ asoll' = _parse_value(Magnitude(astr), <<>>)
    /\ ahaben' = _parse_value(<<>>, Magnitude(astr))
    /\ apc' = "parsed"
    /\ UNCHANGED <<aval, astr>>
    /\ UNCHANGED notAmtVars

\* the three parsers on a free-form string
ParseRaw ==
    /\ apc = "raw"
    /\ aout' = parse_amount(astr)
    /\ asoll' = _parse_value(astr, <<>>)
    /\ ahaben' = _parse_value(<<>>, astr)
    /\ apc' = "rawparsed"
    /\ UNCHANGED <<aval, astr>>
    /\ UNCHANGED notAmtVars

AmtNext == Format \/ Reparse \/ ParseRaw

---------------------------------------------------------------------------
(* PDFConsorsbankExtractor.convert_to_iso                                  *)

AllDigits(s) == \A i \in 1..Len(s) : IsDigit(s[i])

\* re.fullmatch(r'(\d{2})\.(\d{2})\.', s)
MatchesDayMonth(s) ==
    /\ Len(s) = 6
    /\ IsDigit(s[1]) /\ IsDigit(s[2]) /\ s[3] = "."
    /\ IsDigit(s[4]) /\ IsDigit(s[5]) /\ s[6] = "."

\* re.fullmatch(r'(\d{2})\.(\d{2})\.(\d{2,4})', s)
MatchesDayMonthYear(s) ==
    /\ Len(s) \in 8..10
    /\ MatchesDayMonth(SubSeq(s, 1, 6))
    /\ AllDigits(SubSeq(s, 7, Len(s)))

\* global_year is a string; <<>> stands for None (and for '', equally falsy)
convert_to_iso(datum_str0, global_year0) ==
    LET s == Strip(datum_str0)
        day == SubSeq(s, 1, 2)
        month == SubSeq(s, 4, 5)
        year0 == SubSeq(s, 7, Len(s))
        year == IF Len(year0) = 2 THEN <<"2", "0">> \o year0 ELSE year0
    IN  IF MatchesDayMonthYear(s)
        THEN year \o <<"-">> \o month \o <<"-">> \o day
        ELSE IF MatchesDayMonth(s) /\ Len(global_year0) > 0
        THEN global_year0 \o <<"-">> \o month \o <<"-">> \o day
        ELSE s

(* Inputs: a day part, a separator, a month part, a separator, a year of   *)
(* 0..MaxYearDigits digits, with optional surrounding text.                *)
MaxYearDigits == 5

YearOf(n) == [i \in 1..n |-> DigitChars[((i + 1) % 10) + 1]]

DateInputs ==
    { pre \o d \o s1 \o m \o s2 \o YearOf(n) \o post :
        pre \in {<<>>, <<" ">>, <<"x">>},
        d \in {<<"3", "1">>, <<"5">>, <<"3", "x">>},
        s1 \in {<<".">>, <<"-">>},
        m \in {<<"1", "0">>, <<"1">>},
        s2 \in {<<".">>, <<>>},
        n \in 0..MaxYearDigits,
        post \in {<<>>, <<" ">>, <<"x">>} }

YearInputs == {<<>>, <<"2", "0", "2", "2">>}

DateIdle == dpc = "idle" /\ datum_str = <<>> /\ global_year = <<>> /\ dout = <<>>

DateInit ==
    /\ dpc = "start"
    /\ datum_str \in DateInputs
    /\ global_year \in YearInputs
    /\ dout = <<>>

Convert ==
    /\ dpc = "start"
    /\ dout' = convert_to_iso(datum_str, global_year)
    /\ dpc' = "done"
    /\ UNCHANGED <<datum_str, global_year>>
    /\ UNCHANGED notDateVars

DateNext == Convert

---------------------------------------------------------------------------
(* ConsorsbankDataframeMapper                                              *)
(*                                                                         *)
(* A DataFrame row is a record of the four columns the mapper reads.  The  *)
(* 'Text/Verwendungszweck' cell is a sequence of words; "trigger in        *)
(* text_val" is then "the trigger is one of the words", which keeps the    *)
(* substring test (a trigger embedded in a longer cell still matches).     *)
(* PNNr is a string ("" when the cell is empty); Soll and Haben are        *)
(* character sequences.                                                    *)

KONTOSTAND == "*** Kontostand zum"

TRIGGERS ==
    <<KONTOSTAND, "LASTSCHRIFT", "GEBUEHREN", "EURO-UEBERW.", "GUTSCHRIFT", "DAUERAUFTRAG">>

\* trigger in text_val
Contains(text_val, word) == \E i \in 1..Len(text_val) : text_val[i] = word

\* any(trigger in text_val for trigger in self.TRIGGERS)
IsTrigger(row) == \E t \in 1..Len(TRIGGERS) : Contains(row.text, TRIGGERS[t])

\* ConsorsbankDataframeMapper.getId: the counter after the call; the value
\* returned is the same number.  No method of the mapper calls it.
getId(id) == id + 1

RECURSIVE SplitLoop(_, _, _, _)
SplitLoop(rows, i, done, current_block) ==
    IF i > Len(rows)
    THEN IF Len(current_block) > 0 THEN Append(done, current_block) ELSE done
    ELSE IF IsTrigger(rows[i])
    THEN SplitLoop(rows, i + 1,
                   IF Len(current_block) > 0 THEN Append(done, current_block) ELSE done,
                   <<rows[i]>>)
    ELSE SplitLoop(rows, i + 1, done, Append(current_block, rows[i]))

_split_into_blocks(rows) == SplitLoop(rows, 1, <<>>, <<>>)

\* "x or 0" on an optional float
OrZero(o) == IF IsNone(o) THEN 0 ELSE Val(o)

\* str(cell).strip() or default
OrDefault(text_val, default) == IF Len(text_val) = 0 THEN <<default>> ELSE text_val

(* The outcome of _map_block_to_transaction:                               *)
(*   "none"   the method falls off its end (first row is a checkpoint)     *)
(*   "raise"  AttributeError: partner_name_row or partner_institute_row is *)
(*            None and .get is called on it (lines 105, 106)               *)
(*   "tx"     the Transaction                                              *)
_map_block_to_transaction(block) ==
    LET first_row == block[1]
        text_val == first_row.text
    IN  IF Contains(text_val, KONTOSTAND)
        THEN [outcome |-> "none"]
        ELSE IF Len(block) <= 2
        THEN [outcome |-> "raise"]
        ELSE [outcome |-> "tx",
              tx |-> [id |-> first_row.PNNr,
                      type |-> text_val,
                      partner_name |-> OrDefault(block[2].text, "Moritz"),
                      partner_institute |-> OrDefault(block[3].text, "Blööb"),
                      description |-> IF Len(block) > 3 THEN block[4].text ELSE <<>>,
                      value |-> OrZero(_parse_value(first_row.Soll, first_row.Haben))]]

(* Input rows.  A DataFrame is up to MaxChunks chunks; a chunk is a head   *)
(* row followed by 0..MaxTail continuation rows.  Every sequence of head   *)
(* rows is among them (MaxTail = 0), so is every placing of the triggers.  *)
MaxChunks == 3
MaxTail == 2

Chars50 == <<"5", "0", ",", "0", "0">>
Chars1150 == <<"1", "1", "5", "0", ",", "0", "0", "+">>
Chars1200 == <<"1", "2", "0", "0", ",", "0", "0", "+">>

Row(t, p, so, ha) == [text |-> t, PNNr |-> p, Soll |-> so, Haben |-> ha]

RowLastschrift == Row(<<"LASTSCHRIFT">>, "1234", Chars50, <<>>)
RowGutschrift == Row(<<"GUTSCHRIFT">>, "", <<>>, <<>>)
RowKontostand == Row(<<KONTOSTAND, "31.10.">>, "", <<>>, Chars1200)
RowKontostandBefore == Row(<<KONTOSTAND, "30.09.">>, "", <<>>, Chars1150)
RowDauerauftrag == Row(<<"Miete", "DAUERAUFTRAG">>, "1234", <<>>, Chars50)
RowText == Row(<<"Miete">>, "", <<>>, <<>>)

HeadRows == {RowLastschrift, RowGutschrift, RowKontostand, RowDauerauftrag, RowText}

\* the k-th continuation row of a chunk: a name, an empty cell, a reference
TailRow(k) ==
    IF k = 1 THEN Row(<<"Erika">>, "", <<>>, <<>>)
    ELSE IF k = 2 THEN Row(<<>>, "", <<>>, <<>>)
    ELSE Row(<<"Ref">>, "", <<>>, <<>>)

Chunk(h, n) == <<h>> \o [k \in 1..n |-> TailRow(k)]

ChunkSet == {Chunk(h, n) : h \in HeadRows, n \in 0..MaxTail}

\* a whole statement: opening balance, a debit, a credit, closing balance
StatementRows ==
    Chunk(RowKontostandBefore, 0) \o Chunk(RowLastschrift, 2)
        \o Chunk(RowGutschrift, 2) \o Chunk(RowKontostand, 0)

RECURSIVE ConcatUpTo(_, _)
ConcatUpTo(parts, n) ==
    IF n = 0 THEN {<<>>}
    ELSE LET shorter == ConcatUpTo(parts, n - 1)
         IN  shorter \cup {s \o c : s \in shorter, c \in parts}

MapIdle ==
    /\ mpc = "idle" /\ df = <<>> /\ blocks = <<>> /\ midx = 0
    /\ mtransactions = <<>> /\ mid = 0 /\ mraised = FALSE

\* after __init__: self.id = 0; df is the argument map_transactions will get
MapInit ==
    /\ mpc = "start"
    /\ df \in ConcatUpTo(ChunkSet, MaxChunks) \cup {StatementRows}
    /\ blocks = <<>> /\ midx = 0 /\ mtransactions = <<>>
    /\ mid = 0 /\ mraised = FALSE

\* map_transactions, lines 41-42
MapSplit ==
    /\ mpc = "start"
    /\ blocks' = _split_into_blocks(df)
    /\ mtransactions' = <<>>
    /\ midx' = 0
    /\ mpc' = "loop"
    /\ UNCHANGED <<df, mid, mraised>>
    /\ UNCHANGED notMapVars

\* map_transactions, one iteration of the loop of lines 44-50
MapBlock ==
    /\ mpc = "loop"
    /\ midx < Len(blocks)
    /\ LET r == _map_block_to_transaction(blocks[midx + 1])
       IN  IF r.outcome = "raise"
           THEN /\ mpc' = "raised"
                /\ mraised' = TRUE
                /\ UNCHANGED <<midx, mtransactions>>
           ELSE /\ mtransactions' = IF r.outcome = "tx"
                                    THEN Append(mtransactions, r.tx)
                                    ELSE mtransactions
                /\ midx' = midx + 1
                /\ UNCHANGED <<mpc, mraised>>
    /\ UNCHANGED <<df, blocks, mid>>
    /\ UNCHANGED notMapVars

\* map_transactions, line 52
MapReturn ==
    /\ mpc = "loop"
    /\ midx = Len(blocks)
    /\ mpc' = "done"
    /\ UNCHANGED <<df, blocks, midx, mtransactions, mid, mraised>>
    /\ UNCHANGED notMapVars

MapNext == MapSplit \/ MapBlock \/ MapReturn

---------------------------------------------------------------------------
(* PDFConsorsbankExtractor.extract_transactions                            *)
(*                                                                         *)
(* The text of a statement is a sequence of lines, each ended by a newline;*)
(* a line is a sequence of whitespace-separated tokens.  A token is a word *)
(* without digits (field w) or a run of characters (field s) that the      *)
(* patterns classify character by character.  Blank lines carry nothing    *)
(* any of the patterns distinguishes (\s* spans them) and are left out.    *)

Word(w) == [w |-> w, s |-> <<>>]
Chars(s) == [w |-> "", s |-> s]
Marker == Word(KONTOSTAND)

TextTypes == {"LASTSCHRIFT", "EURO-UEBERW.", "GUTSCHRIFT"}
DetailTypes == {"LASTSCHRIFT", "EURO-UEBERW."}

HasDigit(tok) == \E i \in 1..Len(tok.s) : IsDigit(tok.s[i])

\* ^(LASTSCHRIFT|EURO-UEBERW\.|GUTSCHRIFT)\s*\n : the keyword alone on its line
IsTypeLine(line) == Len(line) = 1 /\ line[1].w \in TextTypes

RECURSIVE Flatten(_)
Flatten(lines) == IF Len(lines) = 0 THEN <<>> ELSE Head(lines) \o Flatten(Tail(lines))

\* [\d.,]+[+-] at the start of s: the matched prefix, <<>> when there is none
AmountPrefix(s) ==
    LET ends == {i \in 2..Len(s) :
                    /\ s[i] \in {"+", "-"}
                    /\ \A j \in 1..(i - 1) : IsDigit(s[j]) \/ s[j] \in {".", ","}}
    IN  IF ends = {} THEN <<>>
        ELSE SubSeq(s, 1, CHOOSE i \in ends : \A j \in ends : i <= j)

\* ^(\d{2}\.\d{2}\.?\d{0,4}) at the start of s: the matched prefix, or <<>>
DatePrefix(s) ==
    IF ~ (/\ Len(s) >= 5
          /\ IsDigit(s[1]) /\ IsDigit(s[2]) /\ s[3] = "."
          /\ IsDigit(s[4]) /\ IsDigit(s[5]))
    THEN <<>>
    ELSE LET a == IF Len(s) >= 6 /\ s[6] = "." THEN 6 ELSE 5
             more == {n \in 0..4 : a + n <= Len(s)
                                   /\ \A j \in (a + 1)..(a + n) : IsDigit(s[j])}
             n == CHOOSE x \in more : \A y \in more : y <= x
         IN  SubSeq(s, 1, a + n)

\* \d{3,4} as a whole token
IsPnnr(tok) == Len(tok.s) \in {3, 4} /\ AllDigits(tok.s)

\* detail_pattern matched with its first line at block[i]
DetailAt(block, i) ==
    /\ i + 2 <= Len(block)
    /\ Len(block[i]) >= 2
    /\ MatchesDayMonth(block[i][Len(block[i]) - 1].s)
    /\ IsPnnr(block[i][Len(block[i])])
    /\ Len(block[i + 1]) = 1
    /\ MatchesDayMonth(block[i + 1][1].s)
    /\ Len(block[i + 2]) >= 1
    /\ AmountPrefix(block[i + 2][1].s) # <<>>

\* detail_pattern.search(block): the first line of the leftmost match, 0 if none
DetailSearch(block) ==
    LET hits == {i \in 1..Len(block) : DetailAt(block, i)}
    IN  IF hits = {} THEN 0 ELSE CHOOSE i \in hits : \A j \in hits : i <= j

(* balance_pattern.search(block):                                          *)
(*   \*\*\*\s*Kontostand zum [^\d]*\s*(?P<balance>[\d.,]+[+-])             *)
(* [^\d]* runs over anything without a digit, newlines included, so the    *)
(* balance is the first digit-bearing token after the marker, and only if  *)
(* that token starts with a signed amount; otherwise the search goes on to *)
(* the next marker.  The group, <<>> when there is no match.               *)
BalanceAfter(toks, p) ==
    LET digits == {q \in (p + 1)..Len(toks) : HasDigit(toks[q])}
    IN  IF digits = {} THEN <<>>
        ELSE AmountPrefix(toks[CHOOSE q \in digits : \A r \in digits : q <= r].s)

BalanceSearch(block) ==
    LET toks == Flatten(block)
        hits == {p \in 1..Len(toks) : toks[p] = Marker /\ BalanceAfter(toks, p) # <<>>}
    IN  IF hits = {} THEN <<>>
        ELSE BalanceAfter(toks, CHOOSE p \in hits : \A q \in hits : p <= q)

\* lines 56-60: the year of the first full date of the text, None if none
GlobalYear(lines) ==
    LET toks == Flatten(lines)
        hits == {p \in 1..Len(toks) : MatchesDayMonthYear(toks[p].s)}
        first == toks[CHOOSE p \in hits : \A q \in hits : p <= q].s
        year_str == SubSeq(first, 7, Len(first))
    IN  IF hits = {} THEN <<>>
        ELSE IF Len(year_str) = 2 THEN <<"2", "0">> \o year_str ELSE year_str

\* block_pattern.finditer(text): the type and the lines of every block
RECURSIVE FindBlocks(_, _, _)
FindBlocks(lines, i, found) ==
    IF i > Len(lines) THEN found
    ELSE IF IsTypeLine(lines[i])
    THEN FindBlocks(lines, i + 1, Append(found, [type |-> lines[i][1].w, block |-> <<>>]))
    ELSE IF Len(found) = 0
    THEN FindBlocks(lines, i + 1, found)
    ELSE FindBlocks(lines, i + 1,
                    [found EXCEPT ![Len(found)].block = Append(@, lines[i])])

\* lines 86-96: datum_raw of a GUTSCHRIFT block ("" when no line starts with a date)
CreditDatum(block) ==
    LET hits == {i \in 1..Len(block) : DatePrefix(block[i][1].s) # <<>>}
    IN  IF hits = {} THEN <<>>
        ELSE DatePrefix(block[CHOOSE i \in hits : \A j \in hits : i <= j][1].s)

\* the balance inference with the difference taken the wrong way round
InferAmount_Swapped(trans_type, amount_extracted, previous, current_balance) ==
    IF trans_type = "GUTSCHRIFT"
       /\ (amount_extracted = <<>> \/ IsNone(parse_amount(amount_extracted)))
    THEN IF ~IsNone(previous) /\ ~IsNone(current_balance)
         THEN format_amount(Some(Val(previous) - Val(current_balance)))
         ELSE <<>>
    ELSE amount_extracted

\* lines 103-108: the amount string after balance inference
InferAmount(trans_type, amount_extracted, previous, current_balance) ==
    IF trans_type = "GUTSCHRIFT"
       /\ (amount_extracted = <<>> \/ IsNone(parse_amount(amount_extracted)))
    THEN IF ~IsNone(previous) /\ ~IsNone(current_balance)
         THEN format_amount(Some(Val(current_balance) - Val(previous)))
         ELSE <<>>
    ELSE amount_extracted

\* lines 99-102
CurrentBalance(block) ==
    IF BalanceSearch(block) = <<>> THEN None ELSE parse_amount(BalanceSearch(block))

\* lines 78-81: the loop body ends at "continue"
Skips(b) == b.type \in DetailTypes /\ DetailSearch(b.block) = 0

\* lines 82-117: the Transaction built from block b
BuildTransaction(b, year, previous) ==
    LET d == DetailSearch(b.block)
        detailed == b.type \in DetailTypes
        datum_raw == IF detailed
                     THEN b.block[d][Len(b.block[d]) - 1].s
                     ELSE CreditDatum(b.block)
        amount0 == IF detailed THEN AmountPrefix(b.block[d + 2][1].s) ELSE <<>>
        datum_iso == IF datum_raw = <<>> THEN <<>> ELSE convert_to_iso(datum_raw, year)
        amount1 == InferAmount(b.type, amount0, previous, CurrentBalance(b.block))
        description ==
            IF detailed
            THEN Flatten(SubSeq(b.block, 1, d - 1))
                   \o SubSeq(b.block[d], 1, Len(b.block[d]) - 2)
            ELSE Flatten(b.block)
    IN  [date |-> datum_iso,
         type |-> b.type,
         description |-> description,
         value |-> parse_amount(amount1)]


(* Input texts: an optional preamble, then up to MaxBlocks segments, each  *)
(* a keyword line and a body.                                              *)
MaxBlocks == 3

CharsDatum == <<"0", "1", ".", "1", "0", ".">>
CharsWert == <<"0", "2", ".", "1", "0", ".">>
CharsFullDate == <<"0", "5", ".", "0", "1", ".", "2", "3">>
CharsPnnr == <<"1", "2", "3", "4">>
Chars50Debit == <<"5", "0", ",", "0", "0", "-">>
CharsGarbled == <<"1", ",", "2", ",", "3", "+">>
Chars1000 == <<"1", ".", "0", "0", "0", ",", "0", "0", "+">>
Chars1250 == <<"1", "2", "5", "0", ",", "0", "0", "+">>
Chars300Debit == <<"3", "0", "0", ",", "0", "0", "-">>

LineType(t) == <<Word(t)>>
LineText == <<Word("Miete")>>
LineEmbedded == <<Word("Miete"), Word("LASTSCHRIFT")>>
LineDatum == <<Word("Ref"), Chars(CharsDatum), Chars(CharsPnnr)>>
LineWert == <<Chars(CharsWert)>>
LineFullDate == <<Chars(CharsFullDate), Word("Eingang")>>
LineAmount(a) == <<Chars(a)>>
LineBalance(a) == <<Marker, Word("..."), Chars(a)>>
LineBalanceDated(a) == <<Marker, Chars(CharsDatum), Chars(a)>>

Detail(a) == <<LineText, LineDatum, LineWert, LineAmount(a)>>

Segments ==
    { <<LineType("LASTSCHRIFT")>> \o Detail(Chars50Debit),
      <<LineType("LASTSCHRIFT")>> \o Detail(Chars50Debit) \o <<LineBalance(Chars1150)>>,
      <<LineType("LASTSCHRIFT"), LineText, LineDatum, LineWert, LineBalance(Chars1250)>>,
      <<LineType("EURO-UEBERW.")>> \o Detail(CharsGarbled) \o <<LineBalance(Chars1000)>>,
      <<LineType("EURO-UEBERW.")>>,
      <<LineType("GUTSCHRIFT"), LineText>>,
      <<LineType("GUTSCHRIFT"), LineEmbedded, LineBalance(Chars1200)>>,
      <<LineType("GUTSCHRIFT"), LineFullDate, LineBalance(Chars1250)>>,
      <<LineType("GUTSCHRIFT"), LineBalanceDated(Chars1250)>>,
      <<LineType("GUTSCHRIFT"), LineBalance(Chars300Debit)>>,
      <<LineType("GUTSCHRIFT"), LineBalance(CharsGarbled)>> }

Preambles == {<<>>, <<LineText, LineBalance(Chars1150)>>}

TextIdle ==
    /\ tpc = "idle" /\ text = <<>> /\ tblocks = <<>> /\ tidx = 0
    /\ transactions = <<>> /\ previous_balance = None /\ tlog = <<>>
    /\ tcalls = 0

\* after __init__ (lines 11-12); text is what extract_text will return
TextInit ==
    /\ tpc = "start"
    /\ text \in {pre \o body : pre \in Preambles, body \in ConcatUpTo(Segments, MaxBlocks)}
    /\ tblocks = <<>> /\ tidx = 0
    /\ transactions = <<>>
    /\ previous_balance = None
    /\ tlog = <<>>
    /\ tcalls = 0

(* tcalls counts the calls of extract_transactions entered on the instance *)
(* so far; it is not program state.                                        *)

\* lines 55-75: read the text, find the blocks
ExtractStart ==
    /\ tpc = "start"
    /\ tblocks' = FindBlocks(text, 1, <<>>)
    /\ tidx' = 0
    /\ tpc' = "loop"
    /\ tcalls' = tcalls + 1
    /\ UNCHANGED <<text, transactions, previous_balance, tlog>>
    /\ UNCHANGED notTextVars

(* tlog is a history variable, not program state: for every block the loop *)
(* has taken, whether a transaction was appended and the two balances the  *)
(* loop held for it.                                                       *)
Logged(emitted, previous, current_balance) ==
    [emitted |-> emitted, previous |-> previous, current |-> current_balance]

\* lines 76-81: one iteration that ends at "continue"
BlockSkipped ==
    /\ tpc = "loop"
    /\ tidx < Len(tblocks)
    /\ Skips(tblocks[tidx + 1])
    /\ tidx' = tidx + 1
    /\ tlog' = Append(tlog, Logged(FALSE, previous_balance, None))
    /\ UNCHANGED <<tpc, text, tblocks, transactions, previous_balance, tcalls>>
    /\ UNCHANGED notTextVars

\* lines 76-121: one full iteration
BlockMapped ==
    /\ tpc = "loop"
    /\ tidx < Len(tblocks)
    /\ ~Skips(tblocks[tidx + 1])
    /\ LET b == tblocks[tidx + 1]
           current_balance == CurrentBalance(b.block)
       IN  /\ transactions' =
                 Append(transactions, BuildTransaction(b, GlobalYear(text), previous_balance))
           /\ previous_balance' =
                 IF ~IsNone(current_balance) THEN current_balance ELSE previous_balance
           /\ tlog' = Append(tlog, Logged(TRUE, previous_balance, current_balance))
    /\ tidx' = tidx + 1
    /\ UNCHANGED <<tpc, text, tblocks, tcalls>>
    /\ UNCHANGED notTextVars

\* line 122
ExtractReturn ==
    /\ tpc = "loop"
    /\ tidx = Len(tblocks)
    /\ tpc' = "done"
    /\ UNCHANGED <<text, tblocks, tidx, transactions, previous_balance, tlog, tcalls>>
    /\ UNCHANGED notTextVars

TextNext == ExtractStart \/ BlockSkipped \/ BlockMapped \/ ExtractReturn

(* The same instance used again.  extract_transactions has no local        *)
(* accumulator or tracker: self.transactions and self.previous_balance are *)
(* assigned in __init__ only (lines 11-12), so a further call on the       *)
(* instance enters line 55 with what the call before left in them.  The    *)
(* file at self.pdf_path is unchanged, so extract_text returns the same    *)
(* text.  tlog starts afresh: it is the history of the call in progress.   *)
MaxCalls == 2

\* line 54, entered once more on an instance whose last call has returned
ExtractAgain ==
    /\ tpc = "done"
    /\ tcalls < MaxCalls
    /\ tpc' = "start"
    /\ tblocks' = <<>> /\ tidx' = 0
    /\ tlog' = <<>>
    /\ UNCHANGED <<text, transactions, previous_balance, tcalls>>
    /\ UNCHANGED notTextVars

TextReuseNext == TextNext \/ ExtractAgain

---------------------------------------------------------------------------
(* TransactionProcessor.process: the thread pool and the merge             *)
(* (src/transactions/processor.py lines 61-64 and src/code/processor.py    *)
(* lines 70-73 are the same four lines).                                   *)
(*                                                                         *)
(* futures[i] is None while worker i runs and <<list>> once                *)
(* extract_from_file(pdf_csv_files[i]) has returned its list.  No date     *)
(* range is set (from_date = to_date = None), so _filter_by_date keeps     *)
(* all_transactions as merged.  finished is a history variable: the file   *)
(* indices in the order their workers returned.                            *)

MaxFiles == 2
MaxPerFile == 2

TransactionValues == {"t1", "t2"}
FileNames == <<"a.pdf", "b.pdf", "c.csv", "d.pdf", "e.csv">>

ProcIdle ==
    /\ ppc = "idle" /\ pdf_csv_files = <<>> /\ futures = <<>> /\ results = <<>>
    /\ finished = <<>>
    /\ pnext = 0 /\ all_transactions = <<>>

\* after __init__: all_transactions = []; the files are those process will find
ProcInit ==
    /\ ppc = "start"
    /\ pdf_csv_files \in {SubSeq(FileNames, 1, n) : n \in 0..MaxFiles}
    /\ futures = <<>> /\ results = <<>> /\ finished = <<>>
    /\ pnext = 0 /\ all_transactions = <<>>

\* lines 56-58 (65-67): nothing to do
NoFiles ==
    /\ ppc = "start"
    /\ Len(pdf_csv_files) = 0
    /\ ppc' = "returned"
    /\ UNCHANGED <<pdf_csv_files, futures, finished, results, pnext, all_transactions>>
    /\ UNCHANGED notProcVars

\* executor.map submits one call per file
Submit ==
    /\ ppc = "start"
    /\ Len(pdf_csv_files) > 0
    /\ futures' = [i \in 1..Len(pdf_csv_files) |-> None]
    /\ ppc' = "running"
    /\ UNCHANGED <<pdf_csv_files, finished, results, pnext, all_transactions>>
    /\ UNCHANGED notProcVars

\* a worker's extract_from_file returns; workers finish in any order
WorkerReturns(i) ==
    /\ ppc = "running"
    /\ IsNone(futures[i])
    /\ \E r \in StringsUpTo(TransactionValues, MaxPerFile) :
           futures' = [futures EXCEPT ![i] = Some(r)]
    /\ finished' = Append(finished, i)
    /\ UNCHANGED <<ppc, pdf_csv_files, results, pnext, all_transactions>>
    /\ UNCHANGED notProcVars

\* list(executor.map(...)): the results in the order of the files
Collect ==
    /\ ppc = "running"
    /\ \A i \in 1..Len(futures) : ~IsNone(futures[i])
    /\ results' = [i \in 1..Len(futures) |-> Val(futures[i])]
    /\ pnext' = 1
    /\ ppc' = "merging"
    /\ UNCHANGED <<pdf_csv_files, futures, finished, all_transactions>>
    /\ UNCHANGED notProcVars

\* a merge that puts each transaction at the front of the list, one by one
Extend_AtFront(list, more) ==
    [i \in 1..Len(more) |-> more[Len(more) + 1 - i]] \o list

\* list.extend
Extend(list, more) == list \o more

\* for transactions in results: self.all_transactions.extend(transactions)
Merge ==
    /\ ppc = "merging"
    /\ pnext <= Len(results)
    /\ all_transactions' = Extend(all_transactions, results[pnext])
    /\ pnext' = pnext + 1
    /\ UNCHANGED <<ppc, pdf_csv_files, futures, finished, results>>
    /\ UNCHANGED notProcVars

Merged ==
    /\ ppc = "merging"
    /\ pnext > Len(results)
    /\ ppc' = "merged"
    /\ UNCHANGED <<pdf_csv_files, futures, finished, results, pnext, all_transactions>>
    /\ UNCHANGED notProcVars

ProcNext ==
    \/ NoFiles \/ Submit \/ Collect \/ Merge \/ Merged
    \/ \E i \in 1..Len(futures) : WorkerReturns(i)

---------------------------------------------------------------------------
(* Specifications: each machine on its own, the others idle                *)

InitAmount == AmtInit /\ DateIdle /\ MapIdle /\ TextIdle /\ ProcIdle
SpecAmount == InitAmount /\ [][AmtNext]_vars

InitDate == AmtIdle /\ DateInit /\ MapIdle /\ TextIdle /\ ProcIdle
SpecDate == InitDate /\ [][DateNext]_vars

InitMapper == AmtIdle /\ DateIdle /\ MapInit /\ TextIdle /\ ProcIdle
SpecMapper == InitMapper /\ [][MapNext]_vars

InitText == AmtIdle /\ DateIdle /\ MapIdle /\ TextInit /\ ProcIdle
SpecText == InitText /\ [][TextNext]_vars

\* the text engine with its instance called up to MaxCalls times
SpecTextReuse == InitText /\ [][TextReuseNext]_vars

InitProcessor == AmtIdle /\ DateIdle /\ MapIdle /\ TextIdle /\ ProcInit
SpecProcessor == InitProcessor /\ [][ProcNext]_vars

---------------------------------------------------------------------------
(* Properties                                                              *)

TriggerRows(rows) == {i \in 1..Len(rows) : IsTrigger(rows[i])}

\* the markers of the trigger lexicon that name a transaction type
TransactionMarkers == {TRIGGERS[t] : t \in 2..Len(TRIGGERS)}

HasTransactionMarker(text_val) == \E m \in TransactionMarkers : Contains(text_val, m)

\* a block started by a transaction-type trigger (and not a checkpoint)
IsTransactionBlock(block) ==
    /\ HasTransactionMarker(block[1].text)
    /\ ~Contains(block[1].text, KONTOSTAND)

\* the rows of the blocks, in order, with the blocks' boundaries forgotten
RECURSIVE Rejoin(_)
Rejoin(bs) == IF Len(bs) = 0 THEN <<>> ELSE Head(bs) \o Rejoin(Tail(bs))

(* C1: once _split_into_blocks has run, there are exactly as many blocks   *)
(* as rows containing a trigger, every block starts with a triggering row, *)
(* the blocks are in document order (rejoined they are the rows from the   *)
(* first trigger on: the rows before it are in no block), and a DataFrame  *)
(* without triggers gives no block and an empty result.                    *)
C1_OneBlockPerTrigger ==
    mpc # "start" =>
        /\ Len(blocks) = Cardinality(TriggerRows(df))
        /\ \A b \in 1..Len(blocks) : IsTrigger(blocks[b][1])
        /\ \A i \in TriggerRows(df) :
               (\A j \in TriggerRows(df) : i <= j) => Rejoin(blocks) = SubSeq(df, i, Len(df))
        /\ (TriggerRows(df) = {}) => (blocks = <<>> /\ (mpc = "done" => mtransactions = <<>>))

(* C2: every transaction map_transactions has appended comes from a block  *)
(* whose first row contains a transaction-type marker and no checkpoint    *)
(* marker; so there are at most as many as there are such blocks.          *)
C2_OnlyTransactionBlocksEmit ==
    /\ \A k \in 1..Len(mtransactions) :
           /\ HasTransactionMarker(mtransactions[k].type)
           /\ ~Contains(mtransactions[k].type, KONTOSTAND)
    /\ Len(mtransactions)
         <= Cardinality({b \in 1..Len(blocks) : IsTransactionBlock(blocks[b])})

(* C3: mapping a transaction-type block of any length >= 1 returns a       *)
(* transaction, with the partner-name fallback when row 1 is missing, the  *)
(* partner-institute fallback when row 2 is missing and an empty           *)
(* description when row 3 is missing; map_transactions never stops at such *)
(* a block.                                                                *)
C3_ShortBlocksDegrade ==
    /\ \A b \in 1..Len(blocks) :
           IsTransactionBlock(blocks[b]) =>
               LET r == _map_block_to_transaction(blocks[b])
               IN  /\ r.outcome = "tx"
                   /\ Len(blocks[b]) < 2 => r.tx.partner_name = <<"Moritz">>
                   /\ Len(blocks[b]) < 3 => r.tx.partner_institute = <<"Blööb">>
                   /\ Len(blocks[b]) < 4 => r.tx.description = <<>>
    /\ mpc = "raised" => ~IsTransactionBlock(blocks[midx + 1])

(* C6: the statement "opening balance 1150,00; LASTSCHRIFT with debit      *)
(* 50,00; GUTSCHRIFT without amount; closing balance 1200,00+" gives       *)
(* exactly two transactions, of values -50.00 and 50.00, in that order.    *)
C6_StatementValues ==
    (df = StatementRows /\ mpc \in {"done", "raised"}) =>
        /\ mpc = "done"
        /\ Len(mtransactions) = 2
        /\ mtransactions[1].value = Cents(-5000)
        /\ mtransactions[2].value = Cents(5000)

(* C8: no two transactions of one map_transactions run have the same id.   *)
C8_IdsUnique ==
    \A j, k \in 1..Len(mtransactions) :
        j # k => mtransactions[j].id # mtransactions[k].id

(* C4: every block the text engine's loop has taken has appended exactly   *)
(* one transaction, of the block's type, in document order.                *)
C4_OneTransactionPerBlock ==
    tpc \in {"loop", "done"} =>
        /\ Len(transactions) = tidx
        /\ \A k \in 1..Len(transactions) : transactions[k].type = tblocks[k].type

\* the position in self.transactions of the transaction appended for block k
TransactionOf(k) == Cardinality({j \in 1..k : tlog[j].emitted})

(* C5: the transaction appended for a GUTSCHRIFT block has the value       *)
(* current_balance - previous_balance when the tracker held a previous     *)
(* balance as the block was taken and the block has a parseable checkpoint *)
(* of its own, and no value (None) when either is missing.                 *)
C5_CreditValueIsBalanceDifference ==
    \A k \in 1..Len(tlog) :
        (tblocks[k].type = "GUTSCHRIFT") =>
            /\ tlog[k].emitted
            /\ transactions[TransactionOf(k)].value =
                   IF ~IsNone(tlog[k].previous) /\ ~IsNone(tlog[k].current)
                   THEN Some(Val(tlog[k].current) - Val(tlog[k].previous))
                   ELSE None

\* a credit of 250.00 inferred from the checkpoints 1000.00 and 1250.00, and
\* after it a credit block without checkpoint, whose value is unset
C5_Witness ==
    /\ tpc = "done"
    /\ Len(tlog) = 3 /\ Len(transactions) = 3
    /\ tblocks[2].type = "GUTSCHRIFT" /\ tblocks[3].type = "GUTSCHRIFT"
    /\ tlog[2].previous = Some(Cents(100000)) /\ tlog[2].current = Some(Cents(125000))
    /\ transactions[2].value = Some(Cents(25000))
    /\ tlog[3].previous = Some(Cents(125000)) /\ IsNone(tlog[3].current)
    /\ transactions[3].value = None

Orders(n) ==
    {f \in [1..n -> 1..n] : \A i, j \in 1..n : i # j => f[i] # f[j]}

RECURSIVE ConcatInOrder(_, _, _)
ConcatInOrder(lists, order, i) ==
    IF i > Len(lists) THEN <<>>
    ELSE lists[order[i]] \o ConcatInOrder(lists, order, i + 1)

(* C7: when the merge has finished, all_transactions is the documents'     *)
(* returned lists laid end to end in some order of the documents: each     *)
(* list is a contiguous run, in its own order, nothing lost or repeated.   *)
C7_MergeKeepsDocumentRuns ==
    ppc = "merged" =>
        \E order \in Orders(Len(futures)) :
            all_transactions =
                ConcatInOrder([i \in 1..Len(futures) |-> Val(futures[i])], order, 1)

\* two documents with two different transactions each, the second document's
\* worker returning first
C7_Witness ==
    /\ ppc = "merged"
    /\ Len(futures) >= 2
    /\ finished[1] = 2
    /\ Val(futures[1]) = <<"t1", "t2">>
    /\ Val(futures[2]) = <<"t2", "t1">>
    /\ all_transactions = <<"t1", "t2", "t2", "t1">>

(* C9: a whole-cent value v formatted by format_amount and parsed back by  *)
(* parse_amount is v again; the formatted magnitude read through the debit *)
(* column of _parse_value is -|v| and through the credit column +|v|.      *)
C9_AmountRoundTrip ==
    apc = "parsed" =>
        /\ aout = Some(aval)
        /\ asoll = Some(-Abs(aval))
        /\ ahaben = Some(Abs(aval))

\* the round trip of -1.25
C9_Witness ==
    /\ apc = "parsed"
    /\ aval = Cents(-125)
    /\ astr = <<"1", ",", "2", "5", "-">>
    /\ aout = Some(Cents(-125))
    /\ asoll = Some(Cents(-125))
    /\ ahaben = Some(Cents(125))

\* dd.mm. followed by exactly n digits
HasYearOf(s, n) ==
    Len(s) = 6 + n /\ MatchesDayMonth(SubSeq(s, 1, 6)) /\ AllDigits(SubSeq(s, 7, Len(s)))

IsoDate(year, s) == year \o <<"-">> \o SubSeq(s, 4, 5) \o <<"-">> \o SubSeq(s, 1, 2)

(* C10: convert_to_iso gives 20yy-mm-dd for dd.mm.yy, yyyy-mm-dd for       *)
(* dd.mm.yyyy, <inferred year>-mm-dd for dd.mm. when an inferred year is   *)
(* supplied, and returns every other input as it is (surrounding           *)
(* whitespace aside, which the function strips before anything else).      *)
C10_DateNormalizer ==
    dpc = "done" =>
        LET s == Strip(datum_str)
        IN  dout = IF HasYearOf(s, 2) THEN IsoDate(<<"2", "0">> \o SubSeq(s, 7, 8), s)
                   ELSE IF HasYearOf(s, 4) THEN IsoDate(SubSeq(s, 7, 10), s)
                   ELSE IF HasYearOf(s, 0) /\ global_year # <<>> THEN IsoDate(global_year, s)
                   ELSE s

\* the blocks before block k that hold a checkpoint with a parseable amount
CheckpointsBefore(k) ==
    {j \in 1..(k - 1) : ~IsNone(CurrentBalance(tblocks[j].block))}

(* C11: as the loop takes block k, previous_balance is the checkpoint of    *)
(* the nearest earlier block that holds a balance marker with a parseable  *)
(* signed amount, whatever that block's type and whether or not it gave a  *)
(* transaction, and is unset only when no earlier block holds one; so once *)
(* set it is set for every later block.                                    *)
C11_PreviousIsLatestCheckpoint ==
    \A k \in 1..Len(tlog) :
        /\ tlog[k].previous =
              IF CheckpointsBefore(k) = {} THEN None
              ELSE CurrentBalance(
                       tblocks[CHOOSE j \in CheckpointsBefore(k) :
                                   \A i \in CheckpointsBefore(k) : i <= j].block)
        /\ (k > 1 /\ ~IsNone(tlog[k - 1].previous)) => ~IsNone(tlog[k].previous)

\* what one pass over the blocks bs appends, started with the tracker at
\* previous and the accumulator at acc
RECURSIVE PassFrom(_, _, _, _)
PassFrom(bs, i, previous, acc) ==
    IF i > Len(bs) THEN acc
    ELSE IF Skips(bs[i]) THEN PassFrom(bs, i + 1, previous, acc)
    ELSE LET current_balance == CurrentBalance(bs[i].block)
         IN  PassFrom(bs, i + 1,
                      IF ~IsNone(current_balance) THEN current_balance ELSE previous,
                      Append(acc, BuildTransaction(bs[i], GlobalYear(text), previous)))

\* the sequence the document's text gives on an extractor nothing has used
FreshResult == PassFrom(FindBlocks(text, 1, <<>>), 1, None, <<>>)

(* C12: every call of extract_transactions starts with previous_balance    *)
(* unset and an empty transaction list, and the sequence it returns is the *)
(* one the document's text alone determines, also when the same instance   *)
(* has been called before.                                                 *)
C12_EachCallStartsFresh ==
    /\ tpc = "start" => (transactions = <<>> /\ IsNone(previous_balance))
    /\ tpc = "done" => transactions = FreshResult

\* a string with no digit in it has no numeric remainder, whatever is removed
NoDigit(s) == \A i \in 1..Len(s) : ~IsDigit(s[i])

(* C13: _parse_value with exactly one column populated by the string astr: *)
(* through the debit column it gives no value or a value <= 0, through the *)
(* credit column no value or a value >= 0, whatever signs astr contains;   *)
(* and a string without a numeric remainder gives no value, never zero.    *)
C13_ColumnFixesSign ==
    (apc = "rawparsed" /\ astr # <<>>) =>
        /\ IsNone(asoll) \/ Val(asoll) <= 0
        /\ IsNone(ahaben) \/ Val(ahaben) >= 0
        /\ NoDigit(astr) => (IsNone(asoll) /\ IsNone(ahaben))

============================================================================
